---- MODULE Spec2Model ----
(***************************************************************************)
(* A model of the Bear dashboard scraper                                   *)
(* (src/app/scraper/stagehand_scraper.py): BearDashboardScraper's          *)
(* setup_stagehand, login_to_bear, extract_brand_visibility_data and       *)
(* scrape_dashboard, and of main (src/bear_dashboard_scraper.py), which    *)
(* saves a successful scrape with save_data (src/app/storage/json_io.py).  *)
(*                                                                         *)
(* Texts are sequences of one-character strings, so that the substring     *)
(* tests, str.lower, str.strip and the two regular expressions of the      *)
(* extraction routine are computed and not assumed.                        *)
(***************************************************************************)
EXTENDS Integers, Sequences, FiniteSets, TLC

(***************************************************************************)
(* Bounds of the model.                                                    *)
(***************************************************************************)
\* At most this many of the twelve selector queries find the page answering
\* with anything but a timeout (SpecExtract).
MaxResponsive == 2
\* The same bound for the pages of the whole-program specification Spec.
MaxResponsiveScrape == 1

(***************************************************************************)
(* Python values.                                                          *)
(***************************************************************************)
\* Python's None. A text is a sequence of one-character strings, so this
\* value differs from every text, the empty text included.
None == <<"None">>

\* The number of selector candidates in each of the two lists.
NumSelectors == 6

Metrics == {"visibility", "prompt"}

\* The selector lists, in the order the code tries them.
selectors ==
    << "[data-testid*='visibility']",
       "[class*='visibility']",
       "text=/.*visibility.*%/i",
       "text=/.*brand.*visibility.*/i",
       "[class*='percentage']",
       "[class*='metric']" >>

prompt_selectors ==
    << "[data-testid*='prompt']",
       "[class*='prompt']",
       "text=/.*prompt.*count.*/i",
       "text=/.*total.*prompt.*/i",
       "[class*='count']",
       "[class*='metric']" >>

SelectorList(metric) == IF metric = "visibility" THEN selectors ELSE prompt_selectors

\* The tag of the normal result.
ExtractionMethod == "playwright_selectors"

(***************************************************************************)
(* Characters and the str methods the code uses.                           *)
(***************************************************************************)
UpperCase == << "A","B","C","D","E","F","G","H","I","J","K","L","M",
                "N","O","P","Q","R","S","T","U","V","W","X","Y","Z" >>
LowerCase == << "a","b","c","d","e","f","g","h","i","j","k","l","m",
                "n","o","p","q","r","s","t","u","v","w","x","y","z" >>

IsDigit(c) == c \in {"0","1","2","3","4","5","6","7","8","9"}

IsSpace(c) == c \in {" ", "\t", "\n", "\r"}

\* str.lower() on one character.
LowerChar(c) ==
    IF \E k \in 1..26 : UpperCase[k] = c
    THEN LowerCase[CHOOSE k \in 1..26 : UpperCase[k] = c]
    ELSE c

\* str.lower()
Lower(s) == [k \in 1..Len(s) |-> LowerChar(s[k])]

\* `sub in s`
Contains(s, sub) ==
    \E k \in 1..(Len(s) - Len(sub) + 1) : SubSeq(s, k, k + Len(sub) - 1) = sub

\* str.strip(): the text without its leading and trailing whitespace.
Strip(s) ==
    LET inner == {k \in 1..Len(s) : ~IsSpace(s[k])}
    IN  IF inner = {} THEN <<>>
        ELSE LET lo == CHOOSE k \in inner : \A j \in inner : k <= j
                 hi == CHOOSE k \in inner : \A j \in inner : k >= j
             IN  SubSeq(s, lo, hi)

\* Python truthiness of an Optional[str]: None and "" are false.
Truthy(t) == t # None /\ t # <<>>

(***************************************************************************)
(* The regular expressions of the post-processing, as a backtracking       *)
(* matcher computes them: re.search returns the match at the leftmost      *)
(* start, and at that start the one the greedy quantifiers prefer.         *)
(***************************************************************************)
\* The lengths n such that s[from .. from+n-1] all satisfy the class
\* (digits when digit is TRUE, whitespace otherwise): what \d* or \s* can
\* consume at from.
RunLengths(s, from, digit) ==
    {n \in 0..(Len(s) - from + 1) :
        \A k \in from..(from + n - 1) :
            IF digit THEN IsDigit(s[k]) ELSE IsSpace(s[k])}

\* Whether the literal lit stands in s at position from.
LiteralAt(s, from, lit) ==
    /\ from + Len(lit) - 1 <= Len(s)
    /\ SubSeq(s, from, from + Len(lit) - 1) = lit

\* Lexicographic preference of a greedy matcher: longer first quantifier,
\* then longer second, then longer third.
Prefers(m, n) ==
    \/ m[1] > n[1]
    \/ m[1] = n[1] /\ m[2] > n[2]
    \/ m[1] = n[1] /\ m[2] = n[2] /\ m[3] >= n[3]

Preferred(M) == CHOOSE m \in M : \A n \in M : Prefers(m, n)

LeftMost(S) == CHOOSE k \in S : \A j \in S : k <= j

\* The ways (\d+\.?\d*)% matches s starting at position from:
\* <<a, d, b>> with a digits, d dots (0 or 1), b digits, then '%'.
PercentageMatchesAt(s, from) ==
    UNION { UNION { { <<a, d, b>> : b \in
                        {n \in RunLengths(s, from + a + d, TRUE) :
                            LiteralAt(s, from + a + d + n, <<"%">>)} }
                    : d \in {n \in {0, 1} : n = 1 => LiteralAt(s, from + a, <<".">>)} }
            : a \in RunLengths(s, from, TRUE) \ {0} }

\* re.search(r'(\d+\.?\d*)%', s): group(1), or None without a match.
PercentageSearch(s) ==
    LET starts == {k \in 1..Len(s) : PercentageMatchesAt(s, k) # {}}
    IN  IF starts = {} THEN None
        ELSE LET from == LeftMost(starts)
                 m == Preferred(PercentageMatchesAt(s, from))
             IN  SubSeq(s, from, from + m[1] + m[2] + m[3] - 1)

Total == <<"t","o","t","a","l">>
Prompts == <<"p","r","o","m","p","t","s">>

\* The ways (\d+)\s*total\s*prompts matches s starting at position from:
\* <<a, v, w>> with a digits, v spaces, "total", w spaces, "prompts".
CountMatchesAt(s, from) ==
    UNION { UNION { { <<a, v, w>> : w \in
                        {n \in RunLengths(s, from + a + v + Len(Total), FALSE) :
                            LiteralAt(s, from + a + v + Len(Total) + n, Prompts)} }
                    : v \in {n \in RunLengths(s, from + a, FALSE) :
                                LiteralAt(s, from + a + n, Total)} }
            : a \in RunLengths(s, from, TRUE) \ {0} }

\* re.search(r'(\d+)\s*total\s*prompts', s): group(1), or None.
CountSearch(s) ==
    LET starts == {k \in 1..Len(s) : CountMatchesAt(s, k) # {}}
    IN  IF starts = {} THEN None
        ELSE LET from == LeftMost(starts)
                 m == Preferred(CountMatchesAt(s, from))
             IN  SubSeq(s, from, from + m[1] - 1)

(***************************************************************************)
(* The texts the elements of the modelled pages hold.                      *)
(***************************************************************************)
\* 'Visibility: 10.3%': the spec's example of a visibility text.
TextVisibilityPct ==
    <<"V","i","s","i","b","i","l","i","t","y",":"," ","1","0",".","3","%">>

\* 'visibility is high': accepted by the visibility predicate, without a percentage.
TextVisibilityHigh ==
    <<"v","i","s","i","b","i","l","i","t","y"," ","i","s"," ","h","i","g","h">>

\* ' 39 total prompts\n': the prompt text of the spec's example, with the whitespace of markup around it.
TextTotalPrompts ==
    <<" ","3","9"," ","t","o","t","a","l"," ","p","r","o","m","p","t","s","\n">>

\* 'count': accepted by the prompt predicate, without the phrase 'total prompts'.
TextCount ==
    <<"c","o","u","n","t">>

\* '85% of Total Prompts': accepted by both predicates, by the prompt
\* predicate in lower case only.
TextMixed ==
    <<"8","5","%"," ","o","f"," ","T","o","t","a","l"," ","P","r","o","m","p","t","s">>

Texts == { TextVisibilityPct, TextVisibilityHigh, TextTotalPrompts, TextCount, TextMixed }

(***************************************************************************)
(* The page, as the extraction routine meets it: what each of the twelve   *)
(* selector queries, and the text retrieval on the element it returns,     *)
(* answers. (wait_for_selector waits for the default state, visible, and   *)
(* so returns an element or raises.)                                       *)
(*   timeout     wait_for_selector raises TimeoutError after its timeout   *)
(*   raise       wait_for_selector raises another exception                *)
(*   text_raise  an element is returned, and text_content raises           *)
(*   text        an element is returned, and text_content returns `text`   *)
(*               (a text, or None)                                         *)
(***************************************************************************)
Slots == Metrics \X (1..NumSelectors)

Timeout == [kind |-> "timeout", text |-> None]

Responsive ==
    { [kind |-> "raise", text |-> None],
      [kind |-> "text_raise", text |-> None] }
    \cup { [kind |-> "text", text |-> t] : t \in Texts \cup {None} }

\* The sets of at most max selector queries.
SlotSets(max) == {T \in SUBSET Slots : Cardinality(T) <= max}

\* The page on which the queries of S answer as f says and the others time out.
PageOf(S, f) == [sl \in Slots |-> IF sl \in S THEN f[sl] ELSE Timeout]

\* p is a page on which at most max selector queries do not time out.
IsPage(p, max) == \E S \in SlotSets(max) : \E f \in [S -> Responsive] : p = PageOf(S, f)

\* The messages of the exceptions the model raises: str(e).
TimeoutMessage == "Timeout 1000ms exceeded."
QueryFaultMessage == "Target page, context or browser has been closed"
FaultMessages == { QueryFaultMessage, "Execution context was destroyed" }

\* The process environment: which of the variables the program reads are set.
Environments ==
    [ MODEL_API_KEY : BOOLEAN, BROWSERBASE : BOOLEAN,
      BEAR_DASHBOARD_EMAIL : BOOLEAN, BEAR_DASHBOARD_PASSWORD : BOOLEAN ]

(***************************************************************************)
(* The state.                                                              *)
(***************************************************************************)
VARIABLES
    env,               \* the environment variables that are set
    dom,               \* the page's answers to the selector queries
    pc,                \* the position of the control flow
    instances,         \* the Stagehand instances created: "open" or "closed" each
    stagehand,         \* self.stagehand: an index of instances, 0 for None
    login,             \* what login_to_bear returned: "pending", "ok" or "failed"
    i,                 \* the index of the selector candidate a loop is at
    brand_visibility,  \* the local brand_visibility of the extraction
    prompt_count,      \* the local prompt_count of the extraction
    data,              \* what extract_brand_visibility_data returned
    result,            \* what scrape_dashboard returned
    log,               \* the calls made on the page, and what each raised
    save_data_calls,   \* the records main passed to save_data, in order
    main_result        \* what main returned: "pending" before it returns

vars == << env, dom, pc, instances, stagehand, login, i, brand_visibility,
           prompt_count, data, result, log, save_data_calls, main_result >>

mainVars == << save_data_calls, main_result >>

scrapeVars == << env, instances, stagehand, login, result >>

\* The value of data and result before the function returned.
NoDict == [unset |-> TRUE]

\* The dict {}.
EmptyDict == [k \in {} |-> None]

\* One call on the page: raised is "" when the call returned.
Call(op, metric, index, raised) ==
    [op |-> op, metric |-> metric, index |-> index, raised |-> raised]

(***************************************************************************)
(* extract_brand_visibility_data                                           *)
(***************************************************************************)
\* text and ('%' in text or 'visibility' in text.lower())
AcceptsVisibility(text) ==
    /\ Truthy(text)
    /\ \/ Contains(text, <<"%">>)
       \/ Contains(Lower(text), <<"v","i","s","i","b","i","l","i","t","y">>)

\* text and any(word in text.lower() for word in ['prompt', 'count', 'total'])
AcceptsPrompt(text) ==
    /\ Truthy(text)
    /\ \E word \in { <<"p","r","o","m","p","t">>, <<"c","o","u","n","t">>, Total } :
           Contains(Lower(text), word)

Accepts(metric, text) ==
    IF metric = "visibility" THEN AcceptsVisibility(text) ELSE AcceptsPrompt(text)

\* Accepted with the content predicate left out: any element with a text is
\* taken.
AcceptedAnyText(metric, r) == r.kind = "text" /\ Truthy(r.text)

\* Whether one iteration of a selector loop accepts the answer r of the page:
\* the query returned an element, whose text passes the predicate.
Accepted(metric, r) == r.kind = "text" /\ Accepts(metric, r.text)

\* LoopEnds without the break: the loop tries every candidate.
LoopEndsWithoutBreak(metric, r, idx) == idx = NumSelectors

\* LoopEnds with `except: break`: a query or text retrieval that raises
\* anything but a timeout ends the loop.
LoopEndsOnFault(metric, r, idx) ==
    \/ Accepted(metric, r)
    \/ idx = NumSelectors
    \/ r.kind \in {"raise", "text_raise"}

\* Whether a selector loop ends after the candidate at idx, which the page
\* answered with r: by the break of an accepted candidate, or at the end of
\* the list. Whatever the query or the text retrieval raised, the bare
\* except goes on to the next candidate.
LoopEnds(metric, r, idx) == Accepted(metric, r) \/ idx = NumSelectors

\* The calls one iteration makes: the query, and the text retrieval when the
\* query returned an element. The bare except swallows what they raise.
AttemptCalls(metric, idx, r) ==
    CASE r.kind = "timeout" -> << Call("wait_for_selector", metric, idx, TimeoutMessage) >>
      [] r.kind = "raise" -> << Call("wait_for_selector", metric, idx, QueryFaultMessage) >>
      [] r.kind = "text_raise" ->
            << Call("wait_for_selector", metric, idx, ""),
               Call("text_content", metric, idx, QueryFaultMessage) >>
      [] OTHER ->
            << Call("wait_for_selector", metric, idx, ""),
               Call("text_content", metric, idx, "") >>

\* ParseVisibility falling back to the raw text when the pattern fails.
ParseVisibilityLenient(raw) ==
    IF Truthy(raw) /\ PercentageSearch(raw) # None
    THEN PercentageSearch(raw) \o <<"%">>
    ELSE raw

\* The post-processing of the visibility text.
ParseVisibility(raw) ==
    IF Truthy(raw) /\ PercentageSearch(raw) # None
    THEN PercentageSearch(raw) \o <<"%">>
    ELSE None

\* The post-processing of the prompt text.
ParsePromptCount(raw) ==
    IF Truthy(raw) /\ CountSearch(raw) # None
    THEN CountSearch(raw)
    ELSE None

\* NormalResult with the prompt count parsed only under `if brand_visibility:`.
NormalResultNested(visibility, count) ==
    [ brand_visibility_percentage |-> ParseVisibility(visibility),
      prompt_count |-> IF Truthy(visibility) THEN ParsePromptCount(count) ELSE None,
      extraction_method |-> ExtractionMethod ]

\* NormalResult reporting an empty extraction as an error.
NormalResultEmptyIsError(visibility, count) ==
    IF visibility = None /\ count = None
    THEN [ brand_visibility_percentage |-> None,
           prompt_count |-> None,
           extraction_method |-> ExtractionMethod,
           error |-> "No data found" ]
    ELSE [ brand_visibility_percentage |-> ParseVisibility(visibility),
           prompt_count |-> ParsePromptCount(count),
           extraction_method |-> ExtractionMethod ]

\* The dict of the normal return.
NormalResult(visibility, count) ==
    [ brand_visibility_percentage |-> ParseVisibility(visibility),
      prompt_count |-> ParsePromptCount(count),
      extraction_method |-> ExtractionMethod ]

\* ErrorResult without the exception's message.
ErrorResultNoMessage(message) ==
    [ brand_visibility_percentage |-> None,
      prompt_count |-> None,
      error |-> "extraction failed" ]

\* The dict of the top-level except clause.
ErrorResult(message) ==
    [ brand_visibility_percentage |-> None,
      prompt_count |-> None,
      error |-> message ]

\* The top-level except clause: a call outside the selector loops raised.
ExtractFails(op, message) ==
    /\ log' = Append(log, Call(op, "", 0, message))
    /\ data' = ErrorResult(message)
    /\ pc' = "extract_returned"
    /\ i' = 0
    /\ UNCHANGED << mainVars, dom, brand_visibility, prompt_count >>

\* await self.page.wait_for_timeout(2000) returns.
ExtractWait ==
    /\ pc = "extract"
    /\ log' = Append(log, Call("wait_for_timeout", "", 0, ""))
    /\ pc' = "visibility_loop"
    /\ i' = 1
    /\ brand_visibility' = None
    /\ UNCHANGED << mainVars, dom, prompt_count, data, scrapeVars >>

\* await self.page.wait_for_timeout(2000) raises.
ExtractWaitRaises ==
    /\ pc = "extract"
    /\ \E message \in FaultMessages : ExtractFails("wait_for_timeout", message)
    /\ UNCHANGED scrapeVars

\* One iteration of `for selector in selectors`.
VisibilityAttempt ==
    /\ pc = "visibility_loop"
    /\ LET r == dom[<<"visibility", i>>]
       IN  /\ log' = log \o AttemptCalls("visibility", i, r)
           /\ brand_visibility' =
                 IF Accepted("visibility", r) THEN Strip(r.text) ELSE brand_visibility
           /\ IF LoopEnds("visibility", r, i)
              THEN pc' = "sleep" /\ i' = 0
              ELSE pc' = pc /\ i' = i + 1
    /\ UNCHANGED << mainVars, dom, prompt_count, data, scrapeVars >>

\* await asyncio.sleep(2) returns.
InterSearchDelay ==
    /\ pc = "sleep"
    /\ log' = Append(log, Call("sleep", "", 0, ""))
    /\ pc' = "prompt_loop"
    /\ i' = 1
    /\ prompt_count' = None
    /\ UNCHANGED << mainVars, dom, brand_visibility, data, scrapeVars >>

\* await asyncio.sleep(2) raises.
InterSearchDelayRaises ==
    /\ pc = "sleep"
    /\ \E message \in FaultMessages : ExtractFails("sleep", message)
    /\ UNCHANGED scrapeVars

\* One iteration of `for selector in prompt_selectors`.
PromptAttempt ==
    /\ pc = "prompt_loop"
    /\ LET r == dom[<<"prompt", i>>]
       IN  /\ log' = log \o AttemptCalls("prompt", i, r)
           /\ prompt_count' =
                 IF Accepted("prompt", r) THEN Strip(r.text) ELSE prompt_count
           /\ IF LoopEnds("prompt", r, i)
              THEN pc' = "parse" /\ i' = 0
              ELSE pc' = pc /\ i' = i + 1
    /\ UNCHANGED << mainVars, dom, brand_visibility, data, scrapeVars >>

\* The post-processing and the normal return.
PostProcess ==
    /\ pc = "parse"
    /\ data' = NormalResult(brand_visibility, prompt_count)
    /\ pc' = "extract_returned"
    /\ UNCHANGED << mainVars, dom, i, brand_visibility, prompt_count, log, scrapeVars >>

NextExtract ==
    \/ ExtractWait
    \/ ExtractWaitRaises
    \/ VisibilityAttempt
    \/ InterSearchDelay
    \/ InterSearchDelayRaises
    \/ PromptAttempt
    \/ PostProcess

(***************************************************************************)
(* The extraction routine alone, called on a page of a scraper that is set *)
(* up and logged in.                                                       *)
(***************************************************************************)
InitExtract ==
    /\ env = [ MODEL_API_KEY |-> TRUE, BROWSERBASE |-> TRUE,
               BEAR_DASHBOARD_EMAIL |-> TRUE, BEAR_DASHBOARD_PASSWORD |-> TRUE ]
    /\ IsPage(dom, MaxResponsive)
    /\ pc = "extract"
    /\ instances = << "open" >>
    /\ stagehand = 1
    /\ login = "ok"
    /\ i = 0
    /\ brand_visibility = None
    /\ prompt_count = None
    /\ data = NoDict
    /\ result = NoDict
    /\ log = << >>
    /\ save_data_calls = << >>
    /\ main_result = "pending"

SpecExtract == InitExtract /\ [][NextExtract]_vars

(***************************************************************************)
(* setup_stagehand                                                         *)
(***************************************************************************)
\* How Stagehand.init() and the page it leaves can turn out.
InitOutcomes == { "ok", "init_raises", "no_page" }

\* self.stagehand = Stagehand(config=config): one more instance, which
\* self.stagehand now names; the instance it named before is named no more.
CreateInstance ==
    /\ instances' = Append(instances, "open")
    /\ stagehand' = Len(instances) + 1

\* The dict of scrape_dashboard's except clause.
ScrapeError(message) == [ status |-> "error", message |-> message, data |-> EmptyDict ]

\* MODEL_API_KEY is not set: the raise of line 25, caught at line 61.
SetupWithoutKey ==
    /\ pc = "setup"
    /\ ~env.MODEL_API_KEY
    /\ pc' = "setup_fallback"
    /\ UNCHANGED << mainVars, env, dom, instances, stagehand, login, i, brand_visibility,
                    prompt_count, data, result, log >>

\* The first instance (local without the Browserbase credentials, on
\* Browserbase with them) initializes and has a page.
SetupFirst ==
    /\ pc = "setup"
    /\ env.MODEL_API_KEY
    /\ CreateInstance
    /\ pc' = "login"
    /\ UNCHANGED << mainVars, env, dom, login, i, brand_visibility, prompt_count, data,
                    result, log >>

\* The first instance's init raises, or leaves no page (the raise of line 40
\* or 58): caught at line 61.
SetupFirstFails ==
    /\ pc = "setup"
    /\ env.MODEL_API_KEY
    /\ \E outcome \in InitOutcomes \ {"ok"} : CreateInstance
    /\ pc' = "setup_fallback"
    /\ UNCHANGED << mainVars, env, dom, login, i, brand_visibility, prompt_count, data,
                    result, log >>

\* The except clause: the local fallback initializes and has a page.
SetupFallback ==
    /\ pc = "setup_fallback"
    /\ CreateInstance
    /\ pc' = "login"
    /\ UNCHANGED << mainVars, env, dom, login, i, brand_visibility, prompt_count, data,
                    result, log >>

\* The fallback's init raises, or leaves no page: the exception leaves
\* setup_stagehand and scrape_dashboard's except clause catches it.
SetupFallbackFails ==
    /\ pc = "setup_fallback"
    /\ CreateInstance
    /\ \E message \in FaultMessages \cup {"Stagehand failed to initialize page in fallback"} :
           result' = ScrapeError(message)
    /\ pc' = "finally"
    /\ UNCHANGED << mainVars, env, dom, login, i, brand_visibility, prompt_count, data, log >>

(***************************************************************************)
(* login_to_bear                                                           *)
(***************************************************************************)
\* The awaited calls of a login, in order.
LoginCalls ==
    << "goto", "act", "sleep", "act", "sleep", "act", "sleep", "wait_for_timeout" >>

\* The first n calls of a login, the last of which raised message ("" for none).
LoginLog(n, message) ==
    [k \in 1..n |-> Call(LoginCalls[k], "", 0, IF k = n THEN message ELSE "")]

\* The dict scrape_dashboard returns after a failed login.
LoginFailed == [ status |-> "error", message |-> "Failed to login to Bear dashboard" ]

\* LoginGate with the result of login_to_bear ignored.
LoginGateIgnored(returned) == TRUE

\* Whether scrape_dashboard goes on to the extraction, given what
\* login_to_bear returned: `if not await self.login_to_bear(): return {...}`.
LoginGate(returned) == returned = "ok"

\* scrape_dashboard after login_to_bear returned.
AfterLogin(returned) ==
    IF LoginGate(returned)
    THEN pc' = "extract" /\ UNCHANGED result
    ELSE pc' = "finally" /\ result' = LoginFailed

\* The credentials are not both set: login_to_bear returns False.
LoginWithoutCredentials ==
    /\ pc = "login"
    /\ ~(env.BEAR_DASHBOARD_EMAIL /\ env.BEAR_DASHBOARD_PASSWORD)
    /\ login' = "failed"
    /\ AfterLogin("failed")
    /\ UNCHANGED << mainVars, env, dom, instances, stagehand, i, brand_visibility,
                    prompt_count, data, log >>

\* One of the calls raises: login_to_bear returns False.
LoginRaises ==
    /\ pc = "login"
    /\ env.BEAR_DASHBOARD_EMAIL /\ env.BEAR_DASHBOARD_PASSWORD
    /\ \E n \in 1..Len(LoginCalls) : log' = log \o LoginLog(n, QueryFaultMessage)
    /\ login' = "failed"
    /\ AfterLogin("failed")
    /\ UNCHANGED << mainVars, env, dom, instances, stagehand, i, brand_visibility,
                    prompt_count, data >>

\* Every call returns: login_to_bear returns True.
LoginSucceeds ==
    /\ pc = "login"
    /\ env.BEAR_DASHBOARD_EMAIL /\ env.BEAR_DASHBOARD_PASSWORD
    /\ log' = log \o LoginLog(Len(LoginCalls), "")
    /\ login' = "ok"
    /\ AfterLogin("ok")
    /\ UNCHANGED << mainVars, env, dom, instances, stagehand, i, brand_visibility,
                    prompt_count, data >>

(***************************************************************************)
(* scrape_dashboard                                                        *)
(***************************************************************************)
\* The url of the page after the login.
PageUrl == "https://app.usebear.ai/dashboard"

\* await self.setup_stagehand()
ScrapeStart ==
    /\ pc = "scrape"
    /\ pc' = "setup"
    /\ UNCHANGED << mainVars, env, dom, instances, stagehand, login, i, brand_visibility,
                    prompt_count, data, result, log >>

\* The result built around the extraction's dict.
ScrapeSucceeds ==
    /\ pc = "extract_returned"
    /\ result' = [ status |-> "success", url |-> PageUrl, data |-> data ]
    /\ pc' = "finally"
    /\ UNCHANGED << mainVars, env, dom, instances, stagehand, login, i, brand_visibility,
                    prompt_count, data, log >>

\* finally: `if self.stagehand: await self.stagehand.close()` closes the
\* instance self.stagehand names, and scrape_dashboard returns.
Cleanup ==
    /\ pc = "finally"
    /\ instances' = IF stagehand # 0
                    THEN [instances EXCEPT ![stagehand] = "closed"]
                    ELSE instances
    /\ pc' = "returned"
    /\ UNCHANGED << mainVars, env, dom, stagehand, login, i, brand_visibility, prompt_count,
                    data, result, log >>

\* close() raises: the exception replaces the value being returned.
CleanupRaises ==
    /\ pc = "finally"
    /\ stagehand # 0
    /\ instances' = [instances EXCEPT ![stagehand] = "closed"]
    /\ result' = NoDict
    /\ pc' = "raised"
    /\ UNCHANGED << mainVars, env, dom, stagehand, login, i, brand_visibility, prompt_count,
                    data, log >>

Init ==
    /\ env \in Environments
    /\ IsPage(dom, MaxResponsiveScrape)
    /\ pc = "scrape"
    /\ instances = << >>
    /\ stagehand = 0
    /\ login = "pending"
    /\ i = 0
    /\ brand_visibility = None
    /\ prompt_count = None
    /\ data = NoDict
    /\ result = NoDict
    /\ log = << >>
    /\ save_data_calls = << >>
    /\ main_result = "pending"

Next ==
    \/ ScrapeStart
    \/ SetupWithoutKey
    \/ SetupFirst
    \/ SetupFirstFails
    \/ SetupFallback
    \/ SetupFallbackFails
    \/ LoginWithoutCredentials
    \/ LoginRaises
    \/ LoginSucceeds
    \/ ExtractWait
    \/ ExtractWaitRaises
    \/ VisibilityAttempt
    \/ InterSearchDelay
    \/ InterSearchDelayRaises
    \/ PromptAttempt
    \/ PostProcess
    \/ ScrapeSucceeds
    \/ Cleanup
    \/ CleanupRaises

Spec == Init /\ [][Next]_vars

(***************************************************************************)
(* main (src/bear_dashboard_scraper.py) and save_data                      *)
(* (src/app/storage/json_io.py)                                            *)
(***************************************************************************)
\* dict.get(key): the value of the key, None without it.
Get(d, key) == IF key \in DOMAIN d THEN d[key] ELSE None

\* What datetime.now().isoformat() can give when main builds the record.
Clock == { "2025-01-01T09:00:00", "2025-01-01T09:00:30" }

\* How save_data can turn out: the file is written, or writing it raises and
\* save_data's except clause returns status "error".
SaveOutcomes == { "saved", "error" }

\* required_vars that are not set: `[var for var in required_vars if not os.getenv(var)]`.
missing_vars ==
    {var \in {"BEAR_DASHBOARD_EMAIL", "BEAR_DASHBOARD_PASSWORD"} : ~env[var]}

\* scrape_result.get('status') == 'success'
StatusIsSuccess(scrape_result) ==
    "status" \in DOMAIN scrape_result /\ scrape_result.status = "success"

\* DataToStore carrying the extraction's error along.
DataToStoreWithError(scrape_result, now) ==
    LET dashboard_data == IF "data" \in DOMAIN scrape_result
                          THEN scrape_result.data ELSE EmptyDict
    IN  [ brand_visibility_percentage |-> Get(dashboard_data, "brand_visibility_percentage"),
          prompt_count |-> Get(dashboard_data, "prompt_count"),
          extraction_method |-> Get(dashboard_data, "extraction_method"),
          error |-> Get(dashboard_data, "error"),
          scrape_url |-> Get(scrape_result, "url"),
          scrape_timestamp |-> now ]

\* data_to_store: the record main builds from a successful scrape result.
DataToStore(scrape_result, now) ==
    LET dashboard_data == IF "data" \in DOMAIN scrape_result
                          THEN scrape_result.data ELSE EmptyDict
    IN  [ brand_visibility_percentage |-> Get(dashboard_data, "brand_visibility_percentage"),
          prompt_count |-> Get(dashboard_data, "prompt_count"),
          extraction_method |-> Get(dashboard_data, "extraction_method"),
          scrape_url |-> Get(scrape_result, "url"),
          scrape_timestamp |-> now ]

\* A required variable is missing: main returns False before any scrape.
MainMissingVars ==
    /\ pc = "main"
    /\ missing_vars # {}
    /\ main_result' = "False"
    /\ pc' = "main_returned"
    /\ UNCHANGED << env, dom, instances, stagehand, login, i, brand_visibility,
                    prompt_count, data, result, log, save_data_calls >>

\* scrape_result = await scrape_dashboard()
MainScrape ==
    /\ pc = "main"
    /\ missing_vars = {}
    /\ pc' = "scrape"
    /\ UNCHANGED << mainVars, env, dom, instances, stagehand, login, i,
                    brand_visibility, prompt_count, data, result, log >>

\* The scrape's status is "success": main builds the record and calls
\* save_data with it, and returns True when save_data reports "saved".
MainSave ==
    /\ pc = "returned"
    /\ StatusIsSuccess(result)
    /\ \E now \in Clock :
           save_data_calls' = Append(save_data_calls, DataToStore(result, now))
    /\ \E save_status \in SaveOutcomes :
           main_result' = IF save_status = "saved" THEN "True" ELSE "False"
    /\ pc' = "main_returned"
    /\ UNCHANGED << env, dom, instances, stagehand, login, i, brand_visibility,
                    prompt_count, data, result, log >>

\* The scrape's status is not "success": main logs the message and returns
\* False.
MainScrapeFailed ==
    /\ pc = "returned"
    /\ ~StatusIsSuccess(result)
    /\ main_result' = "False"
    /\ pc' = "main_returned"
    /\ UNCHANGED << env, dom, instances, stagehand, login, i, brand_visibility,
                    prompt_count, data, result, log, save_data_calls >>

\* scrape_dashboard raised (out of its finally clause): main's except clause
\* returns False.
MainCatches ==
    /\ pc = "raised"
    /\ main_result' = "False"
    /\ pc' = "main_returned"
    /\ UNCHANGED << env, dom, instances, stagehand, login, i, brand_visibility,
                    prompt_count, data, result, log, save_data_calls >>

InitMain ==
    /\ env \in Environments
    /\ IsPage(dom, MaxResponsiveScrape)
    /\ pc = "main"
    /\ instances = << >>
    /\ stagehand = 0
    /\ login = "pending"
    /\ i = 0
    /\ brand_visibility = None
    /\ prompt_count = None
    /\ data = NoDict
    /\ result = NoDict
    /\ log = << >>
    /\ save_data_calls = << >>
    /\ main_result = "pending"

\* main and everything it calls. login_to_bear's branch for missing
\* credentials is not among the steps: main returns before the scrape when
\* either of the two variables is not set.
NextMain ==
    \/ MainMissingVars
    \/ MainScrape
    \/ ScrapeStart
    \/ SetupWithoutKey
    \/ SetupFirst
    \/ SetupFirstFails
    \/ SetupFallback
    \/ SetupFallbackFails
    \/ LoginRaises
    \/ LoginSucceeds
    \/ ExtractWait
    \/ ExtractWaitRaises
    \/ VisibilityAttempt
    \/ InterSearchDelay
    \/ InterSearchDelayRaises
    \/ PromptAttempt
    \/ PostProcess
    \/ ScrapeSucceeds
    \/ Cleanup
    \/ CleanupRaises
    \/ MainSave
    \/ MainScrapeFailed
    \/ MainCatches

SpecMain == InitMain /\ [][NextMain]_vars

(***************************************************************************)
(* What the properties below speak of.                                     *)
(***************************************************************************)
\* extract_brand_visibility_data has returned.
ExtractReturned == pc = "extract_returned"

\* The calls of the extraction that raised, with the given operations.
RaisedAt(ops) == {k \in DOMAIN log : log[k].op \in ops /\ log[k].raised # ""}

\* The calls of the selector loops that raised something else than a timeout.
UnexpectedLoopFaults ==
    {k \in RaisedAt({"wait_for_selector", "text_content"}) : log[k].raised # TimeoutMessage}

\* The extraction returned by its normal return: the page wait and the
\* inter-search delay returned.
NormalReturn == ExtractReturned /\ RaisedAt({"wait_for_timeout", "sleep"}) = {}

\* Candidate k of a metric, on page p, returns an element whose text passes
\* the content predicate of the metric.
Matches(p, metric, k) ==
    LET text == p[<<metric, k>>].text
    IN  /\ p[<<metric, k>>].kind = "text"
        /\ text # None
        /\ text # <<>>
        /\ IF metric = "visibility"
           THEN \/ Contains(text, <<"%">>)
                \/ Contains(Lower(text), <<"v","i","s","i","b","i","l","i","t","y">>)
           ELSE \/ Contains(Lower(text), <<"p","r","o","m","p","t">>)
                \/ Contains(Lower(text), <<"c","o","u","n","t">>)
                \/ Contains(Lower(text), <<"t","o","t","a","l">>)

\* The candidates of a metric that match on page p.
Matching(p, metric) == {k \in 1..NumSelectors : Matches(p, metric, k)}

\* The stripped text of the lowest-indexed matching candidate, None without one.
FirstMatch(p, metric) ==
    LET matching == Matching(p, metric)
    IN  IF matching = {} THEN None
        ELSE Strip(p[<<metric, LeftMost(matching)>>].text)

\* The selector queries of a metric, in the order of the log: their indices.
QueryIndices(metric) ==
    LET calls == SelectSeq(log, LAMBDA c : c.op = "wait_for_selector" /\ c.metric = metric)
    IN  [k \in 1..Len(calls) |-> calls[k].index]

\* The positions of the log holding the given calls.
Positions(op, metric) == {k \in DOMAIN log : log[k].op = op /\ log[k].metric = metric}

\* s is digits followed by " total prompts"; DigitsOf(s) is the digits.
TotalPromptsSuffix == <<" ">> \o Total \o <<" ">> \o Prompts

IsDigitsTotalPrompts(s) ==
    /\ Len(s) > Len(TotalPromptsSuffix)
    /\ SubSeq(s, Len(s) - Len(TotalPromptsSuffix) + 1, Len(s)) = TotalPromptsSuffix
    /\ \A k \in 1..(Len(s) - Len(TotalPromptsSuffix)) : IsDigit(s[k])

DigitsOf(s) == SubSeq(s, 1, Len(s) - Len(TotalPromptsSuffix))

\* s holds a number followed by '%': a digit, or a digit and a dot, right
\* before a percent sign.
HasPercentage(s) ==
    \E k \in 2..Len(s) :
        /\ s[k] = "%"
        /\ \/ IsDigit(s[k - 1])
           \/ k > 2 /\ s[k - 1] = "." /\ IsDigit(s[k - 2])

\* s holds a number followed by the lower-case phrase 'total prompts',
\* whitespace allowed between them.
HasTotalPrompts(s) ==
    \E a \in 1..Len(s), b \in 1..Len(s), c \in 1..Len(s) :
        /\ a < b /\ b + Len(Total) <= c
        /\ IsDigit(s[a])
        /\ \A k \in (a + 1)..(b - 1) : IsSpace(s[k])
        /\ LiteralAt(s, b, Total)
        /\ \A k \in (b + Len(Total))..(c - 1) : IsSpace(s[k])
        /\ LiteralAt(s, c, Prompts)

(***************************************************************************)
(* C1                                                                      *)
(***************************************************************************)
\* The calls of the extraction that raised a fault, timeouts of selector
\* queries left aside.
Faults == RaisedAt({"wait_for_timeout", "sleep"}) \cup UnexpectedLoopFaults

C3_MethodAlwaysTagged ==
    ExtractReturned =>
        /\ "extraction_method" \in DOMAIN data
        /\ data.extraction_method = "playwright_selectors"

FaultsAsTimeouts(p) ==
    [sl \in Slots |-> IF p[sl].kind \in {"raise", "text_raise"} THEN Timeout ELSE p[sl]]

AllTimedOut ==
    /\ \A sl \in Slots : dom[sl].kind = "timeout"
    /\ \A metric \in Metrics : Len(QueryIndices(metric)) = NumSelectors

\* C7: when every selector candidate of both metrics times out, the
\* extraction returns both value fields null, extraction_method set to the
\* constant, and no error.
C7_AllTimeoutsIsEmpty ==
    (ExtractReturned /\ AllTimedOut) =>
        /\ data.brand_visibility_percentage = None
        /\ data.prompt_count = None
        /\ "extraction_method" \in DOMAIN data
        /\ data.extraction_method = "playwright_selectors"
        /\ "error" \notin DOMAIN data

\* The extraction returned after twelve timeouts.
C7_Witness ==
    /\ ExtractReturned
    /\ AllTimedOut
    /\ Cardinality(RaisedAt({"wait_for_selector"})) = 2 * NumSelectors
    /\ "error" \notin DOMAIN data

(***************************************************************************)
(* C8                                                                      *)
(***************************************************************************)
\* C8: within one extraction, the selector queries of a metric are made in
\* list order, at most six of them, none after a candidate was accepted;
\* every visibility query comes before the inter-search delay, and the delay
\* before every prompt query.
C8_QueryOrder ==
    LET delays == Positions("sleep", "")
    IN  /\ \A metric \in Metrics :
              LET queried == QueryIndices(metric)
              IN  /\ Len(queried) <= NumSelectors
                  /\ \A k \in DOMAIN queried : queried[k] = k
                  /\ \A k \in DOMAIN queried :
                        Matches(dom, metric, k) => k = Len(queried)
        /\ \A v \in Positions("wait_for_selector", "visibility"), d \in delays : v < d
        /\ \A q \in Positions("wait_for_selector", "prompt") : \E d \in delays : d < q
        /\ Cardinality(delays) <= 1

\* The second visibility candidate was accepted and no third one queried;
\* the prompt search went through its six candidates after the delay.
C8_Witness ==
    /\ ExtractReturned
    /\ brand_visibility # None
    /\ Len(QueryIndices("visibility")) = 2
    /\ Len(QueryIndices("prompt")) = NumSelectors
    /\ Positions("sleep", "") # {}

(***************************************************************************)
(* C9                                                                      *)
(***************************************************************************)
\* The selector queries made so far.
SelectorQueries == {k \in DOMAIN log : log[k].op = "wait_for_selector"}

\* The extraction has been called.
ExtractionCalled ==
    \/ pc \in {"extract", "visibility_loop", "sleep", "prompt_loop", "parse", "extract_returned"}
    \/ data # NoDict
    \/ SelectorQueries # {}

\* C9: the extraction is called only after setup_stagehand completed and
\* login_to_bear returned True; when login_to_bear returns False,
\* scrape_dashboard returns status "error" and no selector query is made; a
\* result of status "success" is returned only if the extraction ran.
C9_ExtractionGatedByLogin ==
    /\ ExtractionCalled =>
          /\ login = "ok"
          /\ stagehand # 0
          /\ pc \notin {"scrape", "setup", "setup_fallback", "login"}
    /\ login = "failed" =>
          /\ SelectorQueries = {}
          /\ pc \in {"finally", "returned", "raised"}
          /\ pc = "returned" => result.status = "error"
    /\ ("status" \in DOMAIN result /\ result.status = "success") =>
          /\ login = "ok"
          /\ data # NoDict
          /\ result.data = data

\* scrape_dashboard returned an error after a login that raised while
\* typing, without a selector query.
C9_Witness ==
    /\ pc = "returned"
    /\ login = "failed"
    /\ Len(log) = 4
    /\ log[4].raised # ""
    /\ result.status = "error"
    /\ SelectorQueries = {}

(***************************************************************************)
(* C10                                                                     *)
(***************************************************************************)
\* C10: when scrape_dashboard returns or raises, close() has been called on
\* every Stagehand instance created during the call.
C10_EveryInstanceClosed ==
    pc \in {"returned", "raised"} =>
        \A k \in DOMAIN instances : instances[k] = "closed"

(***************************************************************************)
(* C11                                                                     *)
(***************************************************************************)
\* The extraction returned its fault result: both value fields null, and an
\* error.
FaultResult(d) ==
    /\ "error" \in DOMAIN d
    /\ d.brand_visibility_percentage = None
    /\ d.prompt_count = None

\* scrape_dashboard returned a dict to its caller.
ScrapeReturned == pc \in {"returned", "main_returned"} /\ "status" \in DOMAIN result

MainReturned == pc = "main_returned"

\* C11: an extraction fault is not reported as a failed scrape. After a
\* login that succeeded and an extraction that returned its fault result,
\* the dict scrape_dashboard returns has status "success", and main calls
\* save_data once, with a record whose brand_visibility_percentage,
\* prompt_count and extraction_method are all null and which holds neither
\* an error key nor the error's message. And main calls save_data if and
\* only if the scrape's status is "success": never before it has the
\* result, never for a result of another status, never when scrape_dashboard
\* raised or was not called.
C11_FaultSavedAsSuccess ==
    /\ (ScrapeReturned /\ login = "ok" /\ FaultResult(data)) =>
          /\ result.status = "success"
          /\ result.data = data
    /\ (MainReturned /\ ScrapeReturned /\ login = "ok" /\ FaultResult(data)) =>
          /\ Len(save_data_calls) = 1
          /\ LET record == save_data_calls[1]
             IN  /\ DOMAIN record = { "brand_visibility_percentage", "prompt_count",
                                      "extraction_method", "scrape_url",
                                      "scrape_timestamp" }
                 /\ record.brand_visibility_percentage = None
                 /\ record.prompt_count = None
                 /\ record.extraction_method = None
                 /\ record.scrape_url # data.error
                 /\ record.scrape_timestamp # data.error
    /\ MainReturned => (save_data_calls # << >> <=> StatusIsSuccess(result))
    /\ ~MainReturned => save_data_calls = << >>
    /\ Len(save_data_calls) <= 1

\* The inter-search delay raised after a login that succeeded; the scrape
\* returned "success" around the fault result, and main saved a record of
\* nulls and returned True.
C11_Witness ==
    /\ MainReturned
    /\ login = "ok"
    /\ "error" \in DOMAIN data
    /\ data.error = "Execution context was destroyed"
    /\ \E k \in RaisedAt({"sleep"}) : log[k].raised = data.error
    /\ result.status = "success"
    /\ Len(save_data_calls) = 1
    /\ save_data_calls[1].extraction_method = None
    /\ save_data_calls[1].scrape_url = PageUrl
    /\ main_result = "True"

====
